---- MODULE Spec2Model ----
(***************************************************************************)
(* A model of ExcelSQLManager (src/excel_sql_manager.py): one manager      *)
(* object, the Excel documents it reads and writes, the SQLite database    *)
(* behind its engine, and the calls a client makes on it, either directly  *)
(* or inside a `with` block.                                               *)
(*                                                                         *)
(* Values are strings: "1", "2" stand for numbers, "x" for a text, "" for  *)
(* the empty text, "NA" for a text pandas reads as missing, and Null for   *)
(* a missing value (NaN in a DataFrame, NULL in SQLite).  A sheet or table *)
(* name is a sequence of one-character strings, so that _clean_table_name  *)
(* can be computed character by character as the code does.                *)
(***************************************************************************)
EXTENDS Integers, Sequences, FiniteSets, TLC

\* ------------------------------------------------------------------ bounds
\* Number of calls a client makes on the manager in one behaviour.
MaxSteps == 3
\* Number of sheets of the source document.
MaxSheets == 2
\* Length of a name given to _clean_table_name.
MaxLen == 3
\* Number of rows of a table given to pareto_analysis.
MaxParetoRows == 3
\* Number of rows of a table given to generate_data_quality_report.
MaxReportRows == 3
\* Number of rows of a table given to outlier_detection.
MaxOutlierRows == 5
\* Number of rows of a table the statement of remove_duplicates is run on.
MaxDedupRows == 3
\* Length of a list of values given to filter_by_multiple_values.
MaxValues == 2

\* ------------------------------------------------------------------ values
Null == "<null>"
None == "<None>"
\* The texts pandas' reader turns into a missing value (keep_default_na).
NaStrings == {"", "NA"}

\* ------------------------------------------------------------------ names
Alpha == {"a", "b", "S", "u", "n", "m", "e", "d", "t", "l"}
Digit == {"1"}
\* re's \w: letters, digits and the underscore.
IsWord(c) == c \in Alpha \cup Digit \cup {"_"}

unnamed_table == <<"u", "n", "n", "a", "m", "e", "d", "_", "t", "a", "b", "l", "e">>

\* A cleaning that leaves a leading digit as it is.
_clean_table_name_unprefixed(name) ==
    LET cleaned == [i \in 1..Len(name) |-> IF IsWord(name[i]) THEN name[i] ELSE "_"]
    IN  IF cleaned # <<>> THEN cleaned ELSE unnamed_table

\* _clean_table_name: re.sub(r'[^\w]', '_', name); a leading character that
\* is neither a letter nor '_' gets '_' put before it; '' gives the default.
_clean_table_name(name) ==
    LET cleaned == [i \in 1..Len(name) |-> IF IsWord(name[i]) THEN name[i] ELSE "_"]
        fixed == IF cleaned # <<>> /\ cleaned[1] \notin Alpha /\ cleaned[1] # "_"
                 THEN <<"_">> \o cleaned
                 ELSE cleaned
    IN  IF fixed # <<>> THEN fixed ELSE unnamed_table

SheetNames == {<<"S">>, <<"a", " ", "b">>, <<"a", "_", "b">>}
TableNames == {_clean_table_name(n) : n \in SheetNames}

\* ------------------------------------------------------------------ ordered maps
\* A Python dict: a sequence of entries in insertion order, keys distinct.
Keys(m) == [i \in 1..Len(m) |-> m[i].name]
HasKey(m, n) == \E i \in 1..Len(m) : m[i].name = n
Get(m, n) == m[CHOOSE i \in 1..Len(m) : m[i].name = n].df
\* A merge in place of the assignment: the rows of the new frame are added
\* to the frame the key already has.
SetItem_merging(m, n, df) ==
    IF HasKey(m, n)
    THEN [i \in 1..Len(m) |->
            IF m[i].name = n
            THEN [name |-> n, df |-> [cols |-> m[i].df.cols, rows |-> m[i].df.rows \o df.rows]]
            ELSE m[i]]
    ELSE Append(m, [name |-> n, df |-> df])

\* m[n] = df: an existing key keeps its place, a new key goes to the end.
SetItem(m, n, df) ==
    IF HasKey(m, n)
    THEN [i \in 1..Len(m) |-> IF m[i].name = n THEN [name |-> n, df |-> df] ELSE m[i]]
    ELSE Append(m, [name |-> n, df |-> df])

\* ------------------------------------------------------------------ documents
SourcePath == "book.xlsx"
OtherPath == "out.xlsx"
BackupPath == "book_backup.xlsx"
Paths == {SourcePath, OtherPath, BackupPath}
\* What a path holds: nothing, a workbook (its sheets in order), or the
\* unreadable remains of a write that failed.
NoFile == [state |-> "absent", sheets |-> <<>>]
Corrupt == [state |-> "truncated", sheets |-> <<>>]
Workbook(sheets) == [state |-> "workbook", sheets |-> sheets]

\* The sheets a source document is made of: a name, a header row and the
\* rows of cells as they stand in the file.  The first has a missing text
\* inside, the last ends with a row that holds nothing but one.
FileSheets ==
    { [name |-> <<"S">>,
       df |-> [cols |-> <<"k", "v">>, rows |-> << <<"1", "NA">>, <<"2", "x">> >>]],
      [name |-> <<"a", " ", "b">>,
       df |-> [cols |-> <<"k", "v">>, rows |-> << <<"1", "NA">>, <<"2", "x">> >>]],
      [name |-> <<"a", "_", "b">>,
       df |-> [cols |-> <<"k">>, rows |-> << <<"1">>, <<"NA">> >>]] }

Injective(s) == \A i, j \in 1..Len(s) : s[i] = s[j] => i = j

\* The documents the source path may hold: 1..MaxSheets of these sheets, in
\* any order, names distinct.
SourceDocs ==
    UNION { { d \in [1..n -> FileSheets] : Injective(Keys(d)) } : n \in 1..MaxSheets }

\* pandas' openpyxl reader: a row counts as empty when all its cells are ''.
EmptyRow(r) == \A j \in 1..Len(r) : r[j] = ""
RECURSIVE TrimTrailingEmptyRows(_)
TrimTrailingEmptyRows(rows) ==
    IF rows # <<>> /\ EmptyRow(rows[Len(rows)])
    THEN TrimTrailingEmptyRows(SubSeq(rows, 1, Len(rows) - 1))
    ELSE rows

\* read_excel of one sheet: trailing empty rows are dropped, then every cell
\* holding one of the NaStrings becomes a missing value.
read_sheet(sheet) ==
    LET rows == TrimTrailingEmptyRows(sheet.rows)
    IN  [cols |-> sheet.cols,
         rows |-> [i \in 1..Len(rows) |->
                    [j \in 1..Len(rows[i]) |->
                       IF rows[i][j] \in NaStrings THEN Null ELSE rows[i][j]]]]

\* pd.read_excel(path, sheet_name=None): every sheet, in sheet order.
read_excel(sheets) ==
    [i \in 1..Len(sheets) |-> [name |-> sheets[i].name, df |-> read_sheet(sheets[i].df)]]

\* df.to_excel(writer, sheet_name, index=False): the header row, then one row
\* per row of the frame; a missing value is written as '' (na_rep).
to_excel(df) ==
    [cols |-> df.cols,
     rows |-> [i \in 1..Len(df.rows) |->
                [j \in 1..Len(df.rows[i]) |->
                   IF df.rows[i][j] = Null THEN "" ELSE df.rows[i][j]]]]

\* A writer that puts the sheets in the reverse of the dict's order.
write_excel_reversed(data) ==
    [i \in 1..Len(data) |->
        [name |-> data[Len(data) + 1 - i].name, df |-> to_excel(data[Len(data) + 1 - i].df)]]

\* The sheets ExcelWriter saves for a dict of frames: one per entry, in the
\* dict's iteration order.
write_excel(data) ==
    [i \in 1..Len(data) |-> [name |-> data[i].name, df |-> to_excel(data[i].df)]]

\* ------------------------------------------------------------------ the database
EmptyDf == [cols |-> <<>>, rows |-> <<>>]
NoTables == [t \in {} |-> EmptyDf]

\* The function f with f[k] set to v, k added to its domain if need be.
Override(f, k, v) == [x \in DOMAIN f \cup {k} |-> IF x = k THEN v ELSE f[x]]

\* to_sql with if_exists='append': the rows go behind those the table has.
to_sql_appending(tbls, table_name, df) ==
    IF table_name \in DOMAIN tbls
    THEN [tbls EXCEPT ![table_name] = [cols |-> @.cols, rows |-> @.rows \o df.rows]]
    ELSE Override(tbls, table_name, df)

\* df.to_sql(table_name, engine, if_exists='replace', index=False): the table
\* is dropped if it exists and created again from the frame.
to_sql(tbls, table_name, df) == Override(tbls, table_name, df)

\* The statements a client sends to execute_query: SELECT * FROM a table,
\* SELECT '' AS k, and a text the engine rejects.
Queries ==
    [kind : {"select_all"}, table : TableNames, value : {Null}]
    \cup [kind : {"literal"}, table : {<<>>}, value : {""}]
    \cup [kind : {"malformed"}, table : {<<>>}, value : {Null}]

\* pd.read_sql_query(query, engine): the rows the engine returns, or an error
\* (malformed text, unknown table).
read_sql_query(tbls, q) ==
    CASE q.kind = "select_all" ->
           IF q.table \in DOMAIN tbls
           THEN [ok |-> TRUE, df |-> tbls[q.table]]
           ELSE [ok |-> FALSE, df |-> EmptyDf]
      [] q.kind = "literal" ->
           [ok |-> TRUE, df |-> [cols |-> <<"k">>, rows |-> << <<q.value>> >>]]
      [] OTHER -> [ok |-> FALSE, df |-> EmptyDf]

\* The statements a client sends to execute_update: DELETE FROM a table, a
\* DELETE whose WHERE clause raises while the rows are visited (an integer
\* overflow in abs(), say), and a text the engine rejects.
Updates ==
    [kind : {"delete_all", "delete_failing"}, table : TableNames]
    \cup [kind : {"malformed"}, table : {<<>>}]

\* ------------------------------------------------------------------ the state
VARIABLES
    doc,                  \* path -> what the file system holds there
    original_excel_data,  \* self.original_excel_data
    modified_data,        \* self.modified_data
    tables,               \* the tables of the database at self.db_path
    db_file,              \* whether the file at self.db_path exists
    temp_db,              \* self.temp_db
    connection,           \* self.connection: "none" (None), "open" or "closed"
    scope,                \* how the client uses the manager, and where it is
    steps,                \* calls made so far
    raised,               \* whether the last call raised
    cleanup,              \* what the last close() did at each of its two steps
    first_loaded,         \* history: the frames of the first successful load
    loaded,               \* history: the frames of the latest successful load
    assigned,             \* history: name -> result of the last query assigned since that load
    plain,                \* history: progress of a load, persist, load sequence
    upd,                  \* history: progress of an update, persist, load sequence
    mutated,              \* history: tables a mutation changed, and whether one was made anew
    args,                 \* the arguments of a call on a stateless helper
    result,               \* what the calls on that helper returned
    instances             \* two managers of one process and the temporary files they name

vars == <<doc, original_excel_data, modified_data, tables, db_file, temp_db,
          connection, scope, steps, raised, cleanup, first_loaded, loaded,
          assigned, plain, upd, mutated, args, result, instances>>

bridge == <<original_excel_data, modified_data>>
engine == <<tables, db_file>>
history == <<first_loaded, loaded, assigned, plain, upd, mutated>>
\* The manager and all that belongs to it.
manager == <<doc, bridge, engine, temp_db, connection, scope, steps, raised, cleanup, history>>
\* A call on a stateless helper: it reads no manager and changes none.
utility == <<args, result, instances>>
NoCall == [fn |-> "none"]
NoResult == [calls |-> 0]

\* The names tempfile.mktemp can return, and the managers that name them.
TempNames == {"tmp_a.db", "tmp_b.db"}
PersistentPath == "app.db"
Instances == {1, 2}
\* No manager of the two is constructed, no file exists.
NoInstances ==
    [mgr |-> [i \in Instances |-> [state |-> "none", temp_db |-> FALSE, db_path |-> "none"]],
     files |-> [n \in TempNames \cup {PersistentPath} |-> [exists |-> FALSE, owner |-> 0]]]

\* __init__: both dicts empty, no connection; with db_path None the database
\* is a temporary file whose name tempfile.mktemp picks without creating it.
Constructed ==
    /\ doc \in { [p \in Paths |-> IF p = SourcePath THEN d ELSE NoFile]
                 : d \in {NoFile} \cup {Workbook(sheets) : sheets \in SourceDocs} }
    /\ original_excel_data = <<>>
    /\ modified_data = <<>>
    /\ tables = NoTables
    /\ db_file = FALSE
    /\ temp_db \in BOOLEAN
    /\ connection = "none"
    /\ steps = 0
    /\ raised = FALSE
    /\ cleanup = [release |-> "none", remove |-> "none"]
    /\ first_loaded = [set |-> FALSE, data |-> <<>>]
    /\ loaded = <<>>
    /\ assigned = NoTables
    /\ plain = [stage |-> 0, base |-> <<>>]
    /\ upd = [stage |-> 0, name |-> <<>>, df |-> EmptyDf]
    /\ mutated = [dirty |-> {}, restored |-> FALSE]

\* The client calls the manager directly.
Init ==
    /\ Constructed /\ scope = "direct"
    /\ args = NoCall /\ result = NoResult /\ instances = NoInstances

\* The client uses the manager in a `with` statement, not yet entered.
InitScoped ==
    /\ Constructed /\ scope = "pending"
    /\ args = NoCall /\ result = NoResult /\ instances = NoInstances

\* A call can be made by a client that holds the manager: freely when it uses
\* it directly, inside the block when it uses it in a `with` statement.  The
\* calls of a free client are counted up to MaxSteps; update_excel_with_query
\* makes the calls of its body and no more.
CanCall ==
    /\ scope \in {"direct", "inside"}
    /\ steps < MaxSteps \/ args.fn = "update_excel_with_query"

\* The call returns or raises; an exception raised inside a `with` block
\* leaves the block.
Returned(exc) ==
    /\ raised' = exc
    /\ steps' = steps + 1
    /\ scope' = IF scope = "inside" /\ exc THEN "raising" ELSE scope

\* ------------------------------------------------------------------ history
\* Progress of "load, persist unchanged, load again".
PlainNext(ev, data) ==
    CASE ev = "load" -> IF plain.stage = 2
                        THEN [stage |-> 3, base |-> plain.base]
                        ELSE [stage |-> 1, base |-> data]
      [] ev = "replace" -> [stage |-> 0, base |-> <<>>]
      [] ev = "persist" -> IF plain.stage = 1
                           THEN [stage |-> 2, base |-> plain.base]
                           ELSE [stage |-> 0, base |-> <<>>]
      [] OTHER -> IF plain.stage = 3 THEN [stage |-> 0, base |-> <<>>] ELSE plain

\* Progress of "replace a dataset, persist, load again".
UpdNext(ev, name, df) ==
    CASE ev = "replace" -> [stage |-> 1, name |-> name, df |-> df]
      [] ev = "persist" -> IF upd.stage = 1
                           THEN [upd EXCEPT !.stage = 2]
                           ELSE [stage |-> 0, name |-> <<>>, df |-> EmptyDf]
      [] ev = "load" -> IF upd.stage = 2
                        THEN [upd EXCEPT !.stage = 3]
                        ELSE [stage |-> 0, name |-> <<>>, df |-> EmptyDf]
      [] OTHER -> IF upd.stage = 3 THEN [stage |-> 0, name |-> <<>>, df |-> EmptyDf] ELSE upd

Quiet ==
    /\ plain' = PlainNext("other", <<>>)
    /\ upd' = UpdNext("other", <<>>, EmptyDf)
    /\ UNCHANGED <<first_loaded, loaded, assigned>>

Neutral == Quiet /\ UNCHANGED mutated

HistoryOfLoad(data) ==
    /\ first_loaded' = IF first_loaded.set THEN first_loaded ELSE [set |-> TRUE, data |-> data]
    /\ loaded' = data
    /\ assigned' = NoTables
    /\ plain' = PlainNext("load", data)
    /\ upd' = UpdNext("load", <<>>, EmptyDf)

\* ------------------------------------------------------------------ connect, close
\* connect(): engine.connect() opens the database (SQLite creates the file)
\* or raises, and then self.connection is left as it was.
connect ==
    /\ CanCall
    /\ scope = "direct"
    /\ \E ok \in BOOLEAN :
         /\ connection' = IF ok THEN "open" ELSE connection
         /\ db_file' = (db_file \/ ok)
         /\ Returned(~ok)
    /\ Neutral
    /\ UNCHANGED <<doc, bridge, tables, temp_db, utility, cleanup>>

\* __enter__: connect(); when it raises the block is never entered and
\* __exit__ is not called.
Enter ==
    /\ scope = "pending"
    /\ \E ok \in BOOLEAN :
         /\ connection' = IF ok THEN "open" ELSE connection
         /\ db_file' = (db_file \/ ok)
         /\ scope' = IF ok THEN "inside" ELSE "enter_failed"
         /\ raised' = ~ok
    /\ Neutral
    /\ UNCHANGED <<doc, bridge, tables, temp_db, utility, cleanup, steps>>

\* A close() that removes the database file whether it is temporary or not.
CloseEffect_removing_any(release_fails, remove_fails) ==
    LET release == IF connection = "none" THEN "skipped"
                   ELSE IF connection = "closed" THEN "noop"
                   ELSE IF release_fails THEN "failed" ELSE "ok"
        exc == (release = "failed")
        remove == IF exc THEN "not reached"
                  ELSE IF ~db_file THEN "skipped"
                  ELSE IF remove_fails THEN "failed" ELSE "ok"
    IN  [raised |-> exc, release |-> release, remove |-> remove,
         connection |-> IF release = "ok" THEN "closed" ELSE connection,
         db_file |-> IF remove = "ok" THEN FALSE ELSE db_file,
         tables |-> IF remove = "ok" THEN NoTables ELSE tables]

\* close(), lines 80-90.  Step 1: a connection object, open or already
\* closed, is closed again; closing an open one can fail, and the exception
\* is not caught.  Step 2, reached only when step 1 did not raise: a temporary
\* database file that exists is removed; a failure there is logged.
CloseEffect(release_fails, remove_fails) ==
    LET release == IF connection = "none" THEN "skipped"
                   ELSE IF connection = "closed" THEN "noop"
                   ELSE IF release_fails THEN "failed" ELSE "ok"
        exc == (release = "failed")
        remove == IF exc THEN "not reached"
                  ELSE IF ~(temp_db /\ db_file) THEN "skipped"
                  ELSE IF remove_fails THEN "failed" ELSE "ok"
    IN  [raised |-> exc, release |-> release, remove |-> remove,
         connection |-> IF release = "ok" THEN "closed" ELSE connection,
         db_file |-> IF remove = "ok" THEN FALSE ELSE db_file,
         tables |-> IF remove = "ok" THEN NoTables ELSE tables]

DoClose(e) ==
    /\ connection' = e.connection
    /\ db_file' = e.db_file
    /\ tables' = e.tables
    /\ cleanup' = [release |-> e.release, remove |-> e.remove]
    /\ mutated' = IF e.remove = "ok" THEN [mutated EXCEPT !.dirty = {}] ELSE mutated
    /\ Quiet
    /\ UNCHANGED <<doc, bridge, temp_db, utility>>

close ==
    /\ CanCall
    /\ scope = "direct"
    /\ \E release_fails, remove_fails \in BOOLEAN :
         LET e == CloseEffect(release_fails, remove_fails)
         IN  DoClose(e) /\ Returned(e.raised)

\* __exit__: close(), however the block was left.
Exit ==
    /\ scope \in {"inside", "raising"}
    /\ \E release_fails, remove_fails \in BOOLEAN :
         LET e == CloseEffect(release_fails, remove_fails)
         IN  /\ DoClose(e)
             /\ raised' = e.raised
             /\ scope' = "left"
             /\ UNCHANGED steps

\* ------------------------------------------------------------------ load
\* What load_excel_to_memory reads: FileNotFoundError when the path is
\* absent, a reader error on an unreadable file, else the frames.
LoadResult ==
    IF doc[SourcePath].state = "workbook"
    THEN [ok |-> TRUE, data |-> read_excel(doc[SourcePath].sheets)]
    ELSE [ok |-> FALSE, data |-> <<>>]

\* load_excel_to_memory(): both dicts become copies of what was read.
load_excel_to_memory ==
    /\ CanCall
    /\ LET r == LoadResult
       IN  IF r.ok
           THEN /\ original_excel_data' = r.data
                /\ modified_data' = r.data
                /\ HistoryOfLoad(r.data)
                /\ UNCHANGED mutated
                /\ Returned(FALSE)
           ELSE /\ UNCHANGED bridge
                /\ Neutral
                /\ Returned(TRUE)
    /\ UNCHANGED <<doc, engine, temp_db, utility, connection, cleanup>>

\* A loop that ends at the first name that is not in original_excel_data.
RECURSIVE load_loop_stopping(_, _, _)
load_loop_stopping(tbls, orig, names) ==
    IF names = <<>> \/ ~HasKey(orig, Head(names)) THEN tbls
    ELSE load_loop_stopping(to_sql(tbls, _clean_table_name(Head(names)), Get(orig, Head(names))),
                            orig, Tail(names))

\* The loop of load_sheets_to_sql over sheets_to_load: a name that is not in
\* original_excel_data is skipped, the others are written with to_sql.
RECURSIVE load_loop(_, _, _)
load_loop(tbls, orig, names) ==
    IF names = <<>> THEN tbls
    ELSE LET sheet_name == Head(names)
         IN  load_loop(IF HasKey(orig, sheet_name)
                       THEN to_sql(tbls, _clean_table_name(sheet_name), Get(orig, sheet_name))
                       ELSE tbls,
                       orig, Tail(names))

\* The argument of load_sheets_to_sql: None, or a list of names.
SheetNameArgs ==
    {[none |-> TRUE, names |-> <<>>], [none |-> FALSE, names |-> <<>>]}
    \cup {[none |-> FALSE, names |-> <<n>>] : n \in SheetNames}

\* load_sheets_to_sql(sheet_names): loads first when original_excel_data is
\* empty; None or an empty list stands for every sheet.
load_sheets_to_sql(sheet_names) ==
    /\ CanCall
    /\ LET must_load == (original_excel_data = <<>>)
           r == LoadResult
       IN  IF must_load /\ ~r.ok
           THEN /\ UNCHANGED <<bridge, engine>>
                /\ Neutral
                /\ Returned(TRUE)
           ELSE LET orig == IF must_load THEN r.data ELSE original_excel_data
                    sheets_to_load == IF sheet_names.none \/ sheet_names.names = <<>>
                                      THEN Keys(orig)
                                      ELSE sheet_names.names
                    made == {_clean_table_name(sheets_to_load[i]) :
                                i \in {j \in 1..Len(sheets_to_load) : HasKey(orig, sheets_to_load[j])}}
                    written == (made # {})
                IN  /\ IF must_load
                       THEN /\ original_excel_data' = r.data
                            /\ modified_data' = r.data
                            /\ HistoryOfLoad(r.data)
                       ELSE /\ UNCHANGED bridge
                            /\ Quiet
                    /\ mutated' = [dirty |-> mutated.dirty \ made,
                                   restored |-> mutated.restored \/ (mutated.dirty \cap made # {})]
                    /\ tables' = load_loop(tables, orig, sheets_to_load)
                    /\ db_file' = (db_file \/ written)
                    /\ Returned(FALSE)
    /\ UNCHANGED <<doc, temp_db, utility, connection, cleanup>>

\* ------------------------------------------------------------------ queries
\* execute_query(query): the frame is returned to the caller, or the error
\* is logged and raised; the engine opens the database either way.
execute_query(query) ==
    /\ CanCall
    /\ LET r == read_sql_query(tables, query)
       IN  Returned(~r.ok)
    /\ db_file' = TRUE
    /\ Neutral
    /\ UNCHANGED <<doc, bridge, tables, temp_db, utility, connection, cleanup>>

\* What conn.execute(text(query)) does to the tables the transaction began
\* with: the tables the statement leaves and its rowcount, or an error, and
\* then SQLite has undone whatever the statement did before it failed.
execute_text(tbls, stmt) ==
    IF stmt.kind = "delete_all" /\ stmt.table \in DOMAIN tbls
    THEN [ok |-> TRUE,
          tables |-> [tbls EXCEPT ![stmt.table] = [cols |-> @.cols, rows |-> <<>>]],
          rowcount |-> Len(tbls[stmt.table].rows)]
    ELSE [ok |-> FALSE, tables |-> tbls, rowcount |-> 0]

\* execute_update without a transaction around a statement that is not undone:
\* a DELETE that fails has removed the rows it visited before the failure.
execute_update_partial(query) ==
    /\ CanCall
    /\ LET r == execute_text(tables, query)
           visited == IF query.kind = "delete_failing" /\ query.table \in DOMAIN tables
                      THEN [tables EXCEPT ![query.table] = [cols |-> @.cols, rows |-> <<>>]]
                      ELSE tables
       IN  /\ tables' = IF r.ok THEN r.tables ELSE visited
           /\ mutated' = IF r.ok /\ r.rowcount > 0
                         THEN [mutated EXCEPT !.dirty = @ \cup {query.table}]
                         ELSE mutated
           /\ Returned(~r.ok)
    /\ db_file' = TRUE
    /\ Quiet
    /\ UNCHANGED <<doc, bridge, temp_db, utility, connection, cleanup>>

\* execute_update on a manager whose modified_data follows the tables: the
\* sheet of a table the statement changed gets the rows the table has now.
execute_update_writing_through(query) ==
    /\ CanCall
    /\ LET begun == tables
           r == execute_text(begun, query)
       IN  /\ tables' = IF r.ok THEN r.tables ELSE begun
           /\ modified_data' =
                 [i \in 1..Len(modified_data) |->
                    IF r.ok /\ _clean_table_name(modified_data[i].name) = query.table
                    THEN [name |-> modified_data[i].name, df |-> r.tables[query.table]]
                    ELSE modified_data[i]]
           /\ mutated' = IF r.ok /\ r.rowcount > 0
                         THEN [mutated EXCEPT !.dirty = @ \cup {query.table}]
                         ELSE mutated
           /\ Returned(~r.ok)
    /\ db_file' = TRUE
    /\ Quiet
    /\ UNCHANGED <<doc, original_excel_data, temp_db, utility, connection, cleanup>>

\* execute_update(query): `with self.engine.begin()` opens a transaction, the
\* statement runs in it, and leaving the block commits; an exception rolls the
\* transaction back to the tables it began with, is logged and raised.  The
\* rowcount is returned to the caller.
execute_update(query) ==
    /\ CanCall
    /\ LET begun == tables
           r == execute_text(begun, query)
       IN  /\ tables' = IF r.ok THEN r.tables ELSE begun
           /\ mutated' = IF r.ok /\ r.rowcount > 0
                         THEN [mutated EXCEPT !.dirty = @ \cup {query.table}]
                         ELSE mutated
           /\ Returned(~r.ok)
    /\ db_file' = TRUE
    /\ Quiet
    /\ UNCHANGED <<doc, bridge, temp_db, utility, connection, cleanup>>

\* update_sheet_from_query on a manager whose two dicts are one object: the
\* assignment shows in original_excel_data too.
update_sheet_from_query_aliased(sheet_name, query) ==
    /\ CanCall
    /\ LET r == read_sql_query(tables, query)
       IN  IF r.ok
           THEN /\ modified_data' = SetItem(modified_data, sheet_name, r.df)
                /\ original_excel_data' = modified_data'
                /\ assigned' = Override(assigned, sheet_name, r.df)
                /\ plain' = PlainNext("replace", <<>>)
                /\ upd' = UpdNext("replace", sheet_name, r.df)
                /\ UNCHANGED <<first_loaded, loaded, mutated>>
                /\ Returned(FALSE)
           ELSE /\ UNCHANGED bridge
                /\ Neutral
                /\ Returned(TRUE)
    /\ db_file' = TRUE
    /\ UNCHANGED <<doc, tables, temp_db, utility, connection, cleanup>>

\* update_sheet_from_query that assigns an empty frame when the query fails.
update_sheet_from_query_clearing(sheet_name, query) ==
    /\ CanCall
    /\ LET r == read_sql_query(tables, query)
       IN  /\ modified_data' = SetItem(modified_data, sheet_name, r.df)
           /\ assigned' = Override(assigned, sheet_name, r.df)
           /\ plain' = PlainNext("replace", <<>>)
           /\ upd' = UpdNext("replace", sheet_name, r.df)
           /\ UNCHANGED <<first_loaded, loaded, mutated>>
           /\ Returned(~r.ok)
    /\ db_file' = TRUE
    /\ UNCHANGED <<doc, original_excel_data, tables, temp_db, utility, connection, cleanup>>

\* update_sheet_from_query(sheet_name, query): the result of the query
\* becomes modified_data[sheet_name]; when the query fails nothing is assigned.
update_sheet_from_query(sheet_name, query) ==
    /\ CanCall
    /\ LET r == read_sql_query(tables, query)
       IN  IF r.ok
           THEN /\ modified_data' = SetItem(modified_data, sheet_name, r.df)
                /\ assigned' = Override(assigned, sheet_name, r.df)
                /\ plain' = PlainNext("replace", <<>>)
                /\ upd' = UpdNext("replace", sheet_name, r.df)
                /\ UNCHANGED <<first_loaded, loaded, mutated>>
                /\ Returned(FALSE)
           ELSE /\ UNCHANGED modified_data
                /\ Neutral
                /\ Returned(TRUE)
    /\ db_file' = TRUE
    /\ UNCHANGED <<doc, original_excel_data, tables, temp_db, utility, connection, cleanup>>

\* ------------------------------------------------------------------ documents
\* save_path = output_path if output_path else self.excel_file_path
save_path(output_path) ==
    IF output_path = None \/ output_path = "" THEN SourcePath ELSE output_path

\* save_excel(output_path): ExcelWriter opens (and truncates) the target, one
\* sheet is written per entry of modified_data, and the workbook is saved on
\* leaving the writer; a workbook without a sheet cannot be saved.
save_excel(output_path) ==
    /\ CanCall
    /\ LET target == save_path(output_path)
       IN  IF modified_data = <<>>
           THEN /\ doc' = [doc EXCEPT ![target] = Corrupt]
                /\ Neutral
                /\ Returned(TRUE)
           ELSE /\ doc' = [doc EXCEPT ![target] = Workbook(write_excel(modified_data))]
                /\ IF target = SourcePath
                   THEN /\ plain' = PlainNext("persist", <<>>)
                        /\ upd' = UpdNext("persist", <<>>, EmptyDf)
                        /\ UNCHANGED <<first_loaded, loaded, assigned, mutated>>
                   ELSE Neutral
                /\ Returned(FALSE)
    /\ UNCHANGED <<bridge, engine, temp_db, utility, connection, cleanup>>

\* The default backup path: the stem of the source, "_backup", its suffix.
default_backup_path == BackupPath

\* The arguments of backup_original: none, another path, the source path.
BackupArgs == {None, OtherPath, SourcePath}

\* The path backup_original copies to.
backup_target(backup_path) ==
    IF backup_path = None THEN default_backup_path ELSE backup_path

\* A backup that writes the sheets the manager holds in memory.
backup_original_of_memory(backup_path) ==
    /\ CanCall
    /\ doc' = [doc EXCEPT ![backup_target(backup_path)] = Workbook(write_excel(modified_data))]
    /\ Returned(FALSE)
    /\ Neutral
    /\ UNCHANGED <<bridge, engine, temp_db, utility, connection, cleanup>>

\* backup_original(backup_path): shutil.copy2 of the source file; it raises
\* when there is no source file (FileNotFoundError) and when the backup path
\* is the source path (SameFileError).
backup_original(backup_path) ==
    /\ CanCall
    /\ LET target == backup_target(backup_path)
       IN  IF doc[SourcePath].state = "absent" \/ target = SourcePath
           THEN /\ UNCHANGED doc
                /\ Returned(TRUE)
           ELSE /\ doc' = [doc EXCEPT ![target] = doc[SourcePath]]
                /\ Returned(FALSE)
    /\ Neutral
    /\ UNCHANGED <<bridge, engine, temp_db, utility, connection, cleanup>>

\* ------------------------------------------------------------------ behaviours
Calls ==
    \/ load_excel_to_memory
    \/ \E sheet_names \in SheetNameArgs : load_sheets_to_sql(sheet_names)
    \/ \E query \in Queries : execute_query(query)
    \/ \E query \in Updates : execute_update(query)
    \/ \E sheet_name \in SheetNames, query \in Queries : update_sheet_from_query(sheet_name, query)
    \/ \E output_path \in {None, "", OtherPath} : save_excel(output_path)
    \/ \E backup_path \in BackupArgs : backup_original(backup_path)

\* Direct use: any call in any order, connect and close among them.
Next ==
    \/ connect
    \/ close
    \/ Calls

Spec == Init /\ [][Next]_vars

\* Use in a `with` statement: __enter__, calls inside the block until one
\* raises or the block ends, __exit__.
NextScoped ==
    \/ Enter
    \/ Exit
    \/ Calls

SpecScoped == InitScoped /\ [][NextScoped]_vars

\* A client that loads, materializes lists of one or two names and mutates.
SheetNameLists ==
    {[none |-> FALSE, names |-> <<n>>] : n \in SheetNames}
    \cup {[none |-> FALSE, names |-> <<n, m>>] : n, m \in SheetNames}

NextMaterialize ==
    \/ load_excel_to_memory
    \/ \E sheet_names \in SheetNameLists : load_sheets_to_sql(sheet_names)
    \/ \E query \in Updates : execute_update(query)

SpecMaterialize == Init /\ [][NextMaterialize]_vars

\* ------------------------------------------------------------------ update_excel_with_query
\* update_excel_with_query(excel_path, sheet_name, query, output_path, backup):
\* the arguments, with the document the source path holds at the call.
UpdateArgs ==
    {[fn |-> "update_excel_with_query", sheet_name |-> n, query |-> q,
      output_path |-> o, backup |-> b, source |-> d] :
        n \in SheetNames, q \in Queries, o \in {None, OtherPath, BackupPath},
        b \in BOOLEAN, d \in {doc[SourcePath]}}

\* ExcelSQLManager(excel_path): no db_path, so the database is temporary.
InitUpdate ==
    /\ Constructed /\ temp_db /\ scope = "pending"
    /\ args \in UpdateArgs
    /\ result = NoResult /\ instances = NoInstances

\* The calls of the body of the `with` statement, in their order.
UpdateCalls ==
    (IF args.backup THEN <<"backup_original">> ELSE <<>>)
        \o <<"load_sheets_to_sql", "update_sheet_from_query", "save_excel">>

\* The body has come to the call of method.
At(method) ==
    /\ scope = "inside"
    /\ steps < Len(UpdateCalls)
    /\ UpdateCalls[steps + 1] = method

\* The body is left after its last call, or by the exception of a call.
Leaving == scope = "raising" \/ (scope = "inside" /\ steps = Len(UpdateCalls))

NextUpdate ==
    \/ Enter
    \/ At("backup_original") /\ backup_original(None)
    \/ At("load_sheets_to_sql") /\ load_sheets_to_sql([none |-> TRUE, names |-> <<>>])
    \/ At("update_sheet_from_query") /\ update_sheet_from_query(args.sheet_name, args.query)
    \/ At("save_excel") /\ save_excel(args.output_path)
    \/ Leaving /\ Exit

SpecUpdate == InitUpdate /\ [][NextUpdate]_vars

\* ------------------------------------------------------------------ stateless helpers
\* No manager is in use: a call on a helper stands alone.
NoManager ==
    /\ Constructed
    /\ doc[SourcePath] = NoFile
    /\ ~temp_db
    /\ scope = "none"
    /\ instances = NoInstances

\* The names given to _clean_table_name: every text of up to MaxLen
\* characters out of a letter, a digit, the underscore and two characters
\* that \w does not match.
NameChars == {"a", "1", "_", " ", "-"}
NameInputs == UNION {[1..n -> NameChars] : n \in 0..MaxLen}

InitNames ==
    /\ NoManager
    /\ args \in {[fn |-> "_clean_table_name", name |-> n] : n \in NameInputs}
    /\ result = NoResult

\* A call of the static method; result keeps what the call before returned.
clean_table_name_call ==
    /\ args.fn = "_clean_table_name"
    /\ result.calls < 2
    /\ result' = [calls |-> result.calls + 1,
                  value |-> _clean_table_name(args.name),
                  previous |-> IF result.calls = 0 THEN <<>> ELSE result.value]
    /\ UNCHANGED <<args, instances, manager>>

NextNames == clean_table_name_call

SpecNames == InitNames /\ [][NextNames]_vars

\* ------------------------------------------------------------------ pareto_analysis
\* The sum of f over the set S.
RECURSIVE SumOver(_, _)
SumOver(S, f) ==
    IF S = {} THEN 0
    ELSE LET x == CHOOSE y \in S : TRUE
         IN  f[x] + SumOver(S \ {x}, f)

\* SQLite's ROUND(100.0 * n / d, 2), in hundredths: to the nearest, a half
\* away from zero.
Abs(x) == IF x < 0 THEN -x ELSE x
RoundedPercentage(n, d) ==
    LET magnitude == (20000 * Abs(n) + Abs(d)) \div (2 * Abs(d))
    IN  IF (n < 0) # (d < 0) THEN -magnitude ELSE magnitude

\* The rows of the table: a category and a value.
ParetoCategories == {"A", "B", "C"}
ParetoValues == {-100, 100, 300, 600, 800, 3201}
ParetoTables ==
    UNION {[1..n -> [cat : ParetoCategories, v : ParetoValues]] : n \in 0..MaxParetoRows}

\* ranked_data: GROUP BY the category; SUM(value) per group, and the sum of
\* these over all groups.
Groups(rows) == {rows[i].cat : i \in 1..Len(rows)}
total_value(rows) ==
    [c \in Groups(rows) |->
        SumOver({i \in 1..Len(rows) : rows[i].cat = c}, [i \in 1..Len(rows) |-> rows[i].v])]
grand_total(rows) == SumOver(Groups(rows), total_value(rows))

\* The orders ORDER BY total_value DESC can give the groups: groups with the
\* same total come in the order the engine happens to choose.
Descending(rows) ==
    LET total == total_value(rows)
        n == Cardinality(Groups(rows))
    IN  {o \in [1..n -> Groups(rows)] :
           /\ \A i, j \in 1..n : o[i] = o[j] => i = j
           /\ \A i, j \in 1..n : i < j => total[o[i]] >= total[o[j]]}

\* A window whose frame ends at the current row and leaves its peers out.
window_sum_rows(total, o, i) ==
    SumOver(1..i, [j \in 1..Len(o) |-> total[o[j]]])

\* SUM(total_value) OVER (ORDER BY total_value DESC) at row i of the order o:
\* the default frame runs from the first row to the last peer of the current
\* row, the rows with the same total_value.
window_sum(total, o, i) ==
    LET last_peer == CHOOSE k \in i..Len(o) :
                        /\ total[o[k]] = total[o[i]]
                        /\ \A m \in k + 1..Len(o) : total[o[m]] # total[o[i]]
    IN  SumOver(1..last_peer, [j \in 1..Len(o) |-> total[o[j]]])

\* A label that leaves out a percentage of exactly 80.
pareto_category_below(percentage) ==
    IF ~percentage.null /\ percentage.v < 8000 THEN "Top 80%" ELSE "Bottom 20%"

\* CASE WHEN cumulative_percentage <= 80 THEN 'Top 80%' ELSE 'Bottom 20%' END;
\* a NULL percentage (a grand total of zero) compares as not true.
pareto_category(percentage) ==
    IF ~percentage.null /\ percentage.v <= 8000 THEN "Top 80%" ELSE "Bottom 20%"

\* The rows the query of pareto_analysis returns for the table, the engine
\* having put the groups in the order o.
pareto_analysis(rows, o) ==
    LET total == total_value(rows)
        grand == grand_total(rows)
    IN  [i \in 1..Len(o) |->
           LET cumulative_value == window_sum(total, o, i)
               cumulative_percentage ==
                   IF grand = 0 THEN [null |-> TRUE, v |-> 0]
                   ELSE [null |-> FALSE, v |-> RoundedPercentage(cumulative_value, grand)]
           IN  [category |-> o[i],
                total_value |-> total[o[i]],
                cumulative_value |-> cumulative_value,
                cumulative_percentage |-> cumulative_percentage,
                pareto_category |-> pareto_category(cumulative_percentage)]]

InitPareto ==
    /\ NoManager
    /\ args \in {[fn |-> "pareto_analysis", rows |-> t] : t \in ParetoTables}
    /\ result = NoResult

\* The query is executed once on the table.
pareto_analysis_call ==
    /\ args.fn = "pareto_analysis"
    /\ result.calls = 0
    /\ \E o \in Descending(args.rows) :
         result' = [calls |-> 1, value |-> pareto_analysis(args.rows, o)]
    /\ UNCHANGED <<args, instances, manager>>

NextPareto == pareto_analysis_call

SpecPareto == InitPareto /\ [][NextPareto]_vars

\* ------------------------------------------------------------------ generate_data_quality_report
\* The tables the report is asked for: two declared columns, and in every
\* cell a missing value, the empty text (an UPDATE or INSERT of '' through
\* execute_update, or a table of a database file that existed before) or a
\* text.
ReportColumns == <<"a", "b">>
ReportCells == {Null, "", "x"}
ReportTables ==
    {[cols |-> ReportColumns, rows |-> r] :
        r \in UNION {[1..n -> [1..Len(ReportColumns) -> ReportCells]] : n \in 0..MaxReportRows}}

\* get_table_info: the columns PRAGMA table_info gives and COUNT(*).
get_table_info(df) == [columns |-> df.cols, row_count |-> Len(df.rows)]

\* SELECT COUNT(col) FROM t WHERE col IS NOT NULL AND col != ''.
non_null_count(df, c) ==
    Cardinality({i \in 1..Len(df.rows) : df.rows[i][c] # Null /\ df.rows[i][c] # ""})

\* SELECT COUNT(DISTINCT col) FROM t: the missing value is not counted.
unique_count(df, c) ==
    Cardinality({df.rows[i][c] : i \in 1..Len(df.rows)} \ {Null})

\* A percentage cut to two decimals instead of rounded.
completeness_truncated(non_null, row_count) ==
    IF row_count > 0 THEN (10000 * non_null) \div row_count ELSE 0

\* round(non_null_count / row_count * 100, 2) if row_count > 0 else 0, in
\* hundredths: round() goes to the nearest hundredth and, of two equally
\* near, to the even one.
completeness(non_null, row_count) ==
    IF row_count > 0
    THEN LET q == (10000 * non_null) \div row_count
             rest == (10000 * non_null) % row_count
         IN  IF 2 * rest > row_count THEN q + 1
             ELSE IF 2 * rest = row_count THEN q + (q % 2)
             ELSE q
    ELSE 0

\* report['columns_stats'], by the position of the column.
generate_data_quality_report(df) ==
    LET table_info == get_table_info(df)
    IN  [table_info |-> table_info,
         columns_stats |->
            [c \in 1..Len(table_info.columns) |->
                [non_null_count |-> non_null_count(df, c),
                 null_count |-> table_info.row_count - non_null_count(df, c),
                 unique_count |-> unique_count(df, c),
                 completeness |-> completeness(non_null_count(df, c), table_info.row_count)]]]

InitReport ==
    /\ NoManager
    /\ args \in {[fn |-> "generate_data_quality_report", df |-> t] : t \in ReportTables}
    /\ result = NoResult

generate_data_quality_report_call ==
    /\ args.fn = "generate_data_quality_report"
    /\ result.calls = 0
    /\ result' = [calls |-> 1, value |-> generate_data_quality_report(args.df)]
    /\ UNCHANGED <<args, instances, manager>>

NextReport == generate_data_quality_report_call

SpecReport == InitReport /\ [][NextReport]_vars

\* ------------------------------------------------------------------ outlier_detection
\* The tables the query is run on: one numeric column, in every cell NULL, 1
\* or 5; and the thresholds, 2.0 being the default.
OutlierValues == {1, 5}
OutlierCells ==
    {[null |-> TRUE, v |-> 0]} \cup {[null |-> FALSE, v |-> x] : x \in OutlierValues}
OutlierTables == UNION {[1..n -> OutlierCells] : n \in 0..MaxOutlierRows}
OutlierThresholds == {1, 2}

\* WHERE numeric_column IS NOT NULL.
NotNull(rows) == {i \in 1..Len(rows) : ~rows[i].null}

\* stats: mean_value is sum / count and variance, AVG(x * x) - AVG(x) * AVG(x),
\* is (count * squares - sum * sum) / count^2; kept as the integers they are
\* made of.
stats(rows) ==
    LET S == NotNull(rows)
        count == Cardinality(S)
        sum == SumOver(S, [i \in 1..Len(rows) |-> rows[i].v])
        squares == SumOver(S, [i \in 1..Len(rows) |-> rows[i].v * rows[i].v])
    IN  [count |-> count, sum |-> sum, squares |-> squares,
         variance |-> count * squares - sum * sum]

\* ABS(x - mean_value), times count.
deviation(x, s) == Abs(s.count * x - s.sum)

\* a / n has a finite binary expansion, so that AVG gives it exactly.
Dyadic(a, n) == \E k \in 0..MaxOutlierRows : (a * 2^k) % n = 0

\* The engine computes in binary floating point. z_score and the threshold
\* compare as the exact values do when these differ, and when they are equal
\* and mean_value and AVG(x * x) have no rounding error. When they are equal
\* and AVG rounds, the rounding errors of AVG, of the subtraction, of SQRT and
\* of the division decide on which side of the threshold z_score falls:
\* above tells whether it is the upper one. (On SQLite 3.40 the rows 1, 1, 1,
\* 1, 5 give the z_score 2.0000000000000004 for 5 and the rows 1, 5, 5, 5, 5
\* give it for 1, while the rows 1, 1, 1, 1, 2 give 1.9999999999999991 for
\* 2; all three are exactly 2.)
outlier_status(x, s, threshold, above) ==
    LET z == deviation(x, s) * deviation(x, s)
        t == threshold * threshold * s.variance
    IN  IF s.variance = 0 THEN "Normal"
        ELSE IF z > t THEN "Outlier"
        ELSE IF z < t THEN "Normal"
        ELSE IF Dyadic(s.sum, s.count) /\ Dyadic(s.squares, s.count) THEN "Normal"
        ELSE IF above THEN "Outlier"
        ELSE "Normal"

\* ORDER BY z_score DESC: the orders of the rows S by falling deviation; rows
\* of the same deviation come in the order the engine happens to choose.
RECURSIVE ByZScore(_, _, _)
ByZScore(S, rows, s) ==
    IF S = {} THEN {<<>>}
    ELSE UNION {{<<i>> \o o : o \in ByZScore(S \ {i}, rows, s)} :
                  i \in {j \in S : \A k \in S :
                            deviation(rows[j].v, s) >= deviation(rows[k].v, s)}}

\* The rows the query returns, in the order o: the value, ABS(x - mean_value)
\* times count, whether z_score is defined and the status.
outlier_detection(rows, threshold, o, above) ==
    LET s == stats(rows)
    IN  [i \in 1..Len(o) |->
            [v |-> rows[o[i]].v,
             deviation |-> deviation(rows[o[i]].v, s),
             z_score_null |-> (s.variance = 0),
             outlier_status |-> outlier_status(rows[o[i]].v, s, threshold, above[rows[o[i]].v])]]

InitOutlier ==
    /\ NoManager
    /\ args \in {[fn |-> "outlier_detection", rows |-> t, threshold |-> h] :
                    t \in OutlierTables, h \in OutlierThresholds}
    /\ result = NoResult

\* The query is executed once on the table.
outlier_detection_call ==
    /\ args.fn = "outlier_detection"
    /\ result.calls = 0
    /\ \E o \in ByZScore(NotNull(args.rows), args.rows, stats(args.rows)),
          above \in [OutlierValues -> BOOLEAN] :
         result' = [calls |-> 1,
                    value |-> outlier_detection(args.rows, args.threshold, o, above)]
    /\ UNCHANGED <<args, instances, manager>>

NextOutlier == outlier_detection_call

SpecOutlier == InitOutlier /\ [][NextOutlier]_vars

\* ------------------------------------------------------------------ remove_duplicates
\* The tables the statement is executed on: three columns, in every cell
\* NULL or a text; to_sql gave the rows the rowids 1, 2, ... as it inserted
\* them. unique_columns names one or two of the columns.
DedupCells == {Null, "x"}
DedupColumns == 1..3
DedupTables ==
    UNION {[1..n -> [DedupColumns -> DedupCells]] : n \in 0..MaxDedupRows}
UniqueColumns == {<<1>>, <<2>>, <<1, 2>>, <<2, 3>>}
WithRowid(rows) == {[rowid |-> i, cells |-> rows[i]] : i \in 1..Len(rows)}

\* The values of a row in the columns of GROUP BY; GROUP BY puts the rows
\* whose values are NULL in a column into one group.
GroupKey(row, unique_columns) ==
    [c \in 1..Len(unique_columns) |-> row.cells[unique_columns[c]]]

\* SELECT MAX(rowid) FROM table GROUP BY columns.
max_rowids(table, unique_columns) ==
    {r.rowid : r \in {q \in table :
        \A o \in table :
            GroupKey(o, unique_columns) = GroupKey(q, unique_columns) => o.rowid <= q.rowid}}

\* SELECT MIN(rowid) FROM table GROUP BY columns.
min_rowids(table, unique_columns) ==
    {r.rowid : r \in {q \in table :
        \A o \in table :
            GroupKey(o, unique_columns) = GroupKey(q, unique_columns) => o.rowid >= q.rowid}}

\* The table after DELETE FROM table WHERE rowid NOT IN (SELECT MIN(rowid)
\* ... GROUP BY columns).
remove_duplicates(table, unique_columns) ==
    {r \in table : r.rowid \in min_rowids(table, unique_columns)}

InitDedup ==
    /\ NoManager
    /\ args \in {[fn |-> "remove_duplicates", table |-> WithRowid(t), unique_columns |-> u] :
                    t \in DedupTables, u \in UniqueColumns}
    /\ result = NoResult

\* The statement is executed on the table, and once more on what it left.
remove_duplicates_call ==
    /\ args.fn = "remove_duplicates"
    /\ result.calls < 2
    /\ LET before == IF result.calls = 0 THEN args.table ELSE result.value
           after == remove_duplicates(before, args.unique_columns)
       IN  result' = [calls |-> result.calls + 1,
                      value |-> after,
                      previous |-> before,
                      rowcount |-> Cardinality(before) - Cardinality(after)]
    /\ UNCHANGED <<args, instances, manager>>

NextDedup == remove_duplicates_call

SpecDedup == InitDedup /\ [][NextDedup]_vars

\* ------------------------------------------------------------------ SQLQueryBuilder
\* The values given to the filters: the texts a, ' and 1, and the number 1.
\* A statement is the sequence of the pieces the f-string puts together.
FilterValues ==
    {[str |-> TRUE, text |-> "a"], [str |-> TRUE, text |-> "'"],
     [str |-> TRUE, text |-> "1"], [str |-> FALSE, text |-> "1"]}
FilterLists == UNION {[1..n -> FilterValues] : n \in 0..MaxValues}
FilterTables == {"t", "my table"}
FilterColumns == {"c", "c'"}
FilterOperators == {"=", ">"}

\* f"'{v}'".
Quoted(v) == <<"'", v.text, "'">>
\* str(v).
Str(v) == <<v.text>>

\* ", ".join(pieces).
RECURSIVE Join(_)
Join(pieces) ==
    IF Len(pieces) = 0 THEN <<>>
    ELSE IF Len(pieces) = 1 THEN pieces[1]
    ELSE pieces[1] \o <<", ">> \o Join(Tail(pieces))

filter_by_value(table_name, column, value, operator) ==
    <<"SELECT * FROM ", table_name, " WHERE ", column, " ", operator, " ">>
        \o (IF value.str THEN Quoted(value) ELSE Str(value))

filter_by_multiple_values(table_name, column, values) ==
    LET values_str ==
            IF \A i \in 1..Len(values) : values[i].str
            THEN Join([i \in 1..Len(values) |-> Quoted(values[i])])
            ELSE Join([i \in 1..Len(values) |-> Str(values[i])])
    IN  <<"SELECT * FROM ", table_name, " WHERE ", column, " IN (">> \o values_str \o <<")">>

InitFilter ==
    /\ NoManager
    /\ args \in {[fn |-> "filter_by_value", table_name |-> t, column |-> c,
                  values |-> <<v>>, operator |-> o] :
                    t \in FilterTables, c \in FilterColumns, v \in FilterValues,
                    o \in FilterOperators}
               \cup {[fn |-> "filter_by_multiple_values", table_name |-> t, column |-> c,
                      values |-> l, operator |-> "IN"] :
                        t \in FilterTables, c \in FilterColumns, l \in FilterLists}
    /\ result = NoResult

filter_by_value_call ==
    /\ args.fn = "filter_by_value"
    /\ result.calls = 0
    /\ result' = [calls |-> 1,
                  value |-> filter_by_value(args.table_name, args.column,
                                            args.values[1], args.operator)]
    /\ UNCHANGED <<args, instances, manager>>

filter_by_multiple_values_call ==
    /\ args.fn = "filter_by_multiple_values"
    /\ result.calls = 0
    /\ result' = [calls |-> 1,
                  value |-> filter_by_multiple_values(args.table_name, args.column,
                                                      args.values)]
    /\ UNCHANGED <<args, instances, manager>>

NextFilter ==
    \/ filter_by_value_call
    \/ filter_by_multiple_values_call

SpecFilter == InitFilter /\ [][NextFilter]_vars

\* ------------------------------------------------------------------ two managers
\* tempfile.mktemp(suffix='.db'): a name drawn at random under which no file
\* exists when it is asked; it creates no file and keeps no record of the
\* names it gave.
mktemp == {n \in TempNames : ~instances.files[n].exists}

\* __init__(excel_file_path, db_path) of a manager of the process: with
\* db_path None the database is temporary and mktemp names it; create_engine
\* opens nothing, so no file is made.
__init__(i, db_path) ==
    /\ instances.mgr[i].state # "alive"
    /\ \E path \in (IF db_path = None THEN mktemp ELSE {db_path}) :
         instances' =
            [instances EXCEPT !.mgr[i] =
                [state |-> "alive", temp_db |-> (db_path = None), db_path |-> path]]
    /\ UNCHANGED <<args, result, manager>>

\* load_sheets_to_sql() of manager i: the engine opens the file at db_path,
\* which SQLite creates when it is not there, and to_sql replaces the tables
\* of the sheets by those of this manager.
load_sheets_to_sql_of(i) ==
    /\ instances.mgr[i].state = "alive"
    /\ instances' =
          [instances EXCEPT !.files[instances.mgr[i].db_path] = [exists |-> TRUE, owner |-> i]]
    /\ UNCHANGED <<args, result, manager>>

\* close() of manager i: a temporary database that exists is removed.
close_of(i) ==
    /\ instances.mgr[i].state = "alive"
    /\ LET m == instances.mgr[i]
       IN  instances' =
              [instances EXCEPT
                  !.mgr[i].state = "closed",
                  !.files[m.db_path] =
                      IF m.temp_db /\ @.exists THEN [exists |-> FALSE, owner |-> 0] ELSE @]
    /\ UNCHANGED <<args, result, manager>>

InitTwo ==
    /\ NoManager
    /\ args = NoCall
    /\ result = NoResult

NextTwo ==
    \/ \E i \in Instances, db_path \in {None, PersistentPath} : __init__(i, db_path)
    \/ \E i \in Instances : load_sheets_to_sql_of(i)
    \/ \E i \in Instances : close_of(i)

SpecTwo == InitTwo /\ [][NextTwo]_vars

\* ------------------------------------------------------------------ properties
\* The table of dataset i of a dict holds that dataset.
TableHolds(tbls, data, i) ==
    /\ _clean_table_name(data[i].name) \in DOMAIN tbls
    /\ tbls[_clean_table_name(data[i].name)] = data[i].df

\* The arguments of load_sheets_to_sql that ask for every sheet.
AllSheets == {a \in SheetNameArgs : a.none \/ a.names = <<>>}

\* C1: after load_sheets_to_sql() of every sheet, the table named
\* _clean_table_name(d) holds the rows and columns of original_excel_data[d],
\* for every sheet name d of original_excel_data.
C1_EveryTableHoldsItsOriginal ==
    [][\A a \in AllSheets :
         (load_sheets_to_sql(a) /\ ~raised') =>
             \A i \in 1..Len(original_excel_data') :
                 TableHolds(tables', original_excel_data', i)]_vars

\* The entries of a dict under the names other than n.
Others(m, n) == SelectSeq(m, LAMBDA e : e.name # n)

C3_LastAssignedResultStands ==
    \A n \in SheetNames :
        IF n \in DOMAIN assigned
        THEN HasKey(modified_data, n) /\ Get(modified_data, n) = assigned[n]
        ELSE /\ HasKey(modified_data, n) <=> HasKey(loaded, n)
             /\ HasKey(loaded, n) => Get(modified_data, n) = Get(loaded, n)

\* A loaded dataset was given a query result of another shape while another
\* loaded dataset was left alone.
C3_Witness ==
    /\ \E n \in DOMAIN assigned :
         /\ HasKey(loaded, n)
         /\ assigned[n].cols # Get(loaded, n).cols
         /\ Len(assigned[n].rows) < Len(Get(loaded, n).rows)
    /\ \E n \in SheetNames \ DOMAIN assigned : HasKey(loaded, n)

\* C4: original_excel_data is what the first load put there, whatever was
\* called since.
C4_OriginalIsTheFirstLoad ==
    first_loaded.set => original_excel_data = first_loaded.data

\* C5: after update_sheet_from_query(name, Q), save_excel() and a load of the
\* saved document, dataset name is the result of Q.
C5_UpdatePersistReload ==
    upd.stage = 3 =>
        /\ HasKey(original_excel_data, upd.name)
        /\ Get(original_excel_data, upd.name) = upd.df

\* C6: after a load, save_excel() of the unchanged datasets and a load of
\* the saved document, the datasets are those of the first of the two loads:
\* names, columns, row values and row order.
C6_RoundTrip ==
    plain.stage = 3 => original_excel_data = plain.base

\* The path save_excel is to write for the argument it was given.
Target(arg) == IF arg = None THEN SourcePath ELSE arg

\* C7: save_excel(path) leaves at the target one sheet per entry of
\* modified_data, in the order of the dict, and the target is the source path
\* when no path was given.
C7_PersistWritesModifiedInOrder ==
    [][\A p \in {None, OtherPath} :
         (save_excel(p) /\ ~raised') =>
             LET book == doc'[Target(p)]
             IN  /\ book.state = "workbook"
                 /\ Len(book.sheets) = Len(modified_data)
                 /\ Keys(book.sheets) = Keys(modified_data)
                 /\ \A i \in 1..Len(modified_data) :
                      book.sheets[i].df = to_excel(modified_data[i].df)]_vars

\* Saved over the source after a replacement that added a sheet behind the
\* loaded ones.
C7_Witness ==
    /\ ~raised
    /\ upd.stage = 2
    /\ Len(modified_data) > Len(loaded)
    /\ Len(loaded) >= 2
    /\ doc[SourcePath].state = "workbook"
    /\ Keys(doc[SourcePath].sheets) = Keys(modified_data)

\* C8: close() does not raise, and both of its cleanup steps are attempted.
C8_CloseNeverRaises ==
    [][close => ~raised' /\ cleanup'.remove # "not reached"]_vars

\* C9: a close() after a close() does not raise and leaves the connection
\* released and the temporary database file absent.
C9_CloseIsIdempotent ==
    [][(close /\ cleanup.release # "none") =>
          /\ ~raised'
          /\ connection' # "open"
          /\ ~(temp_db' /\ db_file')]_vars

\* C10: once the `with` block is left, by a return or by an exception, close()
\* has run, the connection is released and the temporary database file is gone.
C10_ScopeExitReleases ==
    scope = "left" =>
        /\ cleanup.release # "none"
        /\ connection = "closed"
        /\ ~(temp_db /\ db_file)

\* A query, a mutation or a replacement is made and returns.
Executes ==
    /\ \/ \E query \in Queries : execute_query(query)
       \/ \E query \in Updates : execute_update(query)
       \/ \E sheet_name \in SheetNames, query \in Queries : update_sheet_from_query(sheet_name, query)
    /\ ~raised'

\* Sheets are made into tables and the call returns.
Materializes ==
    /\ \E sheet_names \in SheetNameArgs : load_sheets_to_sql(sheet_names)
    /\ ~raised'

\* C11: a query, a mutation or a replacement is executed only on a manager
\* that is connected, has loaded and has made its tables, and neither these
\* nor a materialization are executed once close() was called.
C11_OnlyBetweenConnectAndClose ==
    [][/\ Executes => /\ connection = "open"
                      /\ original_excel_data # <<>>
                      /\ tables # NoTables
       /\ (Executes \/ Materializes) => cleanup.release = "none"]_vars

\* C12 as stated: after a close() that returns, the temporary database file
\* does not exist, and a database file the caller named is never deleted.
C12_CloseDeletesTheTemporaryFile ==
    [][(close /\ ~raised') =>
          IF temp_db THEN ~db_file'
          ELSE db_file' = db_file /\ tables' = tables]_vars

\* C12: after a close() that returns, the temporary database file does not
\* exist unless its removal failed (which close() logs); a database file the
\* caller named is never deleted, and its tables stay.
C12_CloseDeletesUnlessRemovalFails ==
    [][(close /\ ~raised') =>
          IF temp_db THEN ~db_file' \/ cleanup'.remove = "failed"
          ELSE db_file' = db_file /\ tables' = tables]_vars

\* A temporary database that held tables was released and removed.
C12_Witness ==
    /\ temp_db /\ ~raised
    /\ cleanup = [release |-> "ok", remove |-> "ok"]
    /\ original_excel_data # <<>>
    /\ ~db_file /\ tables = NoTables

\* C13: execute_update runs its statement in one transaction: when it
\* returns, the rows are gone from the table and the count returned is their
\* number; when it raises, every table is what it was before the call.
C13_MutationCommitsOrLeavesNoTrace ==
    [][\A query \in Updates :
         execute_update(query) =>
             IF raised'
             THEN tables' = tables
             ELSE /\ query.table \in DOMAIN tables
                  /\ tables' = [tables EXCEPT ![query.table] = [cols |-> @.cols, rows |-> <<>>]]
                  /\ execute_text(tables, query).rowcount = Len(tables[query.table].rows)]_vars

\* A mutation emptied one table and a table with rows stands beside it.
C13_Witness ==
    /\ \E t \in mutated.dirty : t \in DOMAIN tables /\ tables[t].rows = <<>>
    /\ \E t \in DOMAIN tables : tables[t].rows # <<>>

\* C14: after load_sheets_to_sql([name]) the table of name holds the
\* original dataset, whatever mutations had changed in the table.
C14_RematerializeReplacesWholesale ==
    [][\A n \in SheetNames :
         (load_sheets_to_sql([none |-> FALSE, names |-> <<n>>]) /\ ~raised'
            /\ HasKey(original_excel_data', n)) =>
             /\ _clean_table_name(n) \in DOMAIN tables'
             /\ tables'[_clean_table_name(n)] = Get(original_excel_data', n)]_vars

\* A table a mutation had changed was made anew and holds its original.
C14_Witness ==
    /\ mutated.restored /\ mutated.dirty = {}
    /\ original_excel_data # <<>>
    /\ \A i \in 1..Len(original_excel_data) : TableHolds(tables, original_excel_data, i)

\* C15: for every name, the empty one, one that starts with a digit and one
\* made of non-word characters among them, _clean_table_name gives a name
\* that is not empty, holds word characters only and starts with a letter or
\* an underscore, and gives the same name when called again.
C15_CleanNameIsAnIdentifier ==
    (args.fn = "_clean_table_name" /\ result.calls >= 1) =>
        /\ result.value # <<>>
        /\ \A i \in 1..Len(result.value) : IsWord(result.value[i])
        /\ result.value[1] \in Alpha \cup {"_"}
        /\ result.calls = 2 => result.previous = result.value

\* A name that starts with a digit and holds a non-word character was
\* cleaned twice.
C15_Witness ==
    /\ args.fn = "_clean_table_name" /\ result.calls = 2
    /\ args.name # <<>> /\ args.name[1] \in Digit
    /\ \E i \in 1..Len(args.name) : ~IsWord(args.name[i])
    /\ Len(result.value) = Len(args.name) + 1

\* The query of pareto_analysis was executed on a table whose grand total is
\* positive.
ParetoDone ==
    /\ args.fn = "pareto_analysis" /\ result.calls = 1
    /\ grand_total(args.rows) > 0

SalesExample ==
    << [cat |-> "A", v |-> 100], [cat |-> "B", v |-> 300], [cat |-> "C", v |-> 600] >>

\* C16: with a positive grand total the rows come by total value descending,
\* the rows labelled "Top 80%" are a leading prefix, each with a cumulative
\* percentage of at most 80, and the first row behind the prefix has one
\* above 80; (A,100), (B,300), (C,600) gives C, B, A with 60%, 90%, 100% and
\* only C in the prefix.
C16_ParetoPartition ==
    ParetoDone =>
        LET r == result.value
        IN  /\ \A i, j \in 1..Len(r) : i < j => r[i].total_value >= r[j].total_value
            /\ \E k \in 0..Len(r) :
                 /\ \A i \in 1..Len(r) : (i <= k) <=> (r[i].pareto_category = "Top 80%")
                 /\ \A i \in 1..k : ~r[i].cumulative_percentage.null
                                    /\ r[i].cumulative_percentage.v <= 8000
                 /\ k < Len(r) => /\ ~r[k + 1].cumulative_percentage.null
                                  /\ r[k + 1].cumulative_percentage.v > 8000
            /\ args.rows = SalesExample =>
                 /\ [i \in 1..3 |-> r[i].category] = <<"C", "B", "A">>
                 /\ [i \in 1..3 |-> r[i].cumulative_percentage.v] = <<6000, 9000, 10000>>
                 /\ [i \in 1..3 |-> r[i].pareto_category]
                      = <<"Top 80%", "Bottom 20%", "Bottom 20%">>

\* The prefix ends on a row whose cumulative percentage is exactly 80.
C16_Witness ==
    /\ ParetoDone
    /\ Len(result.value) >= 2
    /\ result.value[1].pareto_category = "Top 80%"
    /\ result.value[1].cumulative_percentage.v = 8000
    /\ 5 * result.value[1].cumulative_value = 4 * grand_total(args.rows)
    /\ result.value[2].pareto_category = "Bottom 20%"

\* The sum of the totals of the first j rows of the result.
PrefixTotal(r, j) == SumOver(1..j, [i \in 1..Len(r) |-> r[i].total_value])
\* The number of rows labelled "Top 80%".
TopCount(r) == Cardinality({i \in 1..Len(r) : r[i].pareto_category = "Top 80%"})

ReportDone == args.fn = "generate_data_quality_report" /\ result.calls = 1

\* The rows of df whose cell of column c is the missing value.
NullRows(df, c) == {i \in 1..Len(df.rows) : df.rows[i][c] = Null}

\* C18: for every declared column the report's non_null_count is the number
\* of rows whose value in the column is not null, and its null_count is
\* row_count - non_null_count, the number of rows whose value is null.
C18_CountsOfNullAndNonNull ==
    ReportDone =>
        LET df == args.df
            columns_stats == result.value.columns_stats
            row_count == result.value.table_info.row_count
        IN  /\ DOMAIN columns_stats = 1..Len(df.cols)
            /\ \A c \in DOMAIN columns_stats :
                 /\ columns_stats[c].non_null_count = Len(df.rows) - Cardinality(NullRows(df, c))
                 /\ columns_stats[c].null_count = row_count - columns_stats[c].non_null_count
                 /\ columns_stats[c].null_count = Cardinality(NullRows(df, c))

\* C19: for every column the report's completeness is 0 when row_count is 0,
\* else 100 * non_null_count / row_count rounded to the nearest hundredth,
\* and it lies between 0 and 100 (completeness is held in hundredths).
C19_Completeness ==
    ReportDone =>
        LET columns_stats == result.value.columns_stats
            row_count == result.value.table_info.row_count
        IN  \A c \in DOMAIN columns_stats :
              LET k == columns_stats[c].completeness
                  n == columns_stats[c].non_null_count
              IN  /\ row_count = 0 => k = 0
                  /\ row_count > 0 =>
                        2 * Abs(k * row_count - 10000 * n) <= row_count
                  /\ 0 <= k /\ k <= 10000

\* A report on three rows: two of them counted in one column, 66.67 rounded
\* up, and one in the other, 33.33 rounded down.
C19_Witness ==
    /\ ReportDone
    /\ result.value.table_info.row_count = 3
    /\ result.value.columns_stats[1].non_null_count = 2
    /\ result.value.columns_stats[1].completeness = 6667
    /\ result.value.columns_stats[2].non_null_count = 1
    /\ result.value.columns_stats[2].completeness = 3333

\* The outlier query was executed on a column whose variance is not zero.
OutlierDone ==
    /\ args.fn = "outlier_detection" /\ result.calls = 1
    /\ stats(args.rows).variance # 0

\* C20: over the rows of a column of non-zero variance, with the population
\* mean and the variance E[x^2] - E[x]^2, every row that is not null is
\* returned with z = |x - mean| / sqrt(variance), labelled "Outlier" exactly
\* when z > threshold and "Normal" otherwise, and the rows come by falling z.
\* With n rows of sum S, z > threshold is (n*x - S)^2 > threshold^2 *
\* (n * sum of squares - S^2).
C20_OutlierExactlyAboveThreshold ==
    OutlierDone =>
        LET r == result.value
            s == stats(args.rows)
        IN  /\ Len(r) = s.count
            /\ \A x \in OutlierValues :
                 Cardinality({i \in 1..Len(r) : r[i].v = x})
                   = Cardinality({i \in NotNull(args.rows) : args.rows[i].v = x})
            /\ \A i \in 1..Len(r) :
                 /\ ~r[i].z_score_null
                 /\ r[i].deviation = Abs(s.count * r[i].v - s.sum)
                 /\ r[i].outlier_status \in {"Outlier", "Normal"}
                 /\ r[i].outlier_status = "Outlier"
                      <=> r[i].deviation * r[i].deviation
                            > args.threshold * args.threshold * s.variance
            /\ \A i, j \in 1..Len(r) : i < j => r[i].deviation >= r[j].deviation

\* The statement of remove_duplicates was executed.
DedupDone == args.fn = "remove_duplicates" /\ result.calls >= 1

\* The rows of a table with the key combination of the row r.
SameKey(table, r) ==
    {q \in table : GroupKey(q, args.unique_columns) = GroupKey(r, args.unique_columns)}

\* C21: the statement leaves rows of the table as they were, and of every
\* key combination of the table exactly one, the one with the lowest rowid;
\* a row is deleted only if a row of the same key combination and a lower
\* rowid exists; executed a second time, it deletes nothing.
C21_KeepsTheLowestRowidOfEveryKey ==
    DedupDone =>
        /\ result.value \subseteq result.previous
        /\ \A r \in result.previous :
             /\ Cardinality(SameKey(result.value, r)) = 1
             /\ \A q \in SameKey(result.value, r) :
                  \A o \in SameKey(result.previous, r) : q.rowid <= o.rowid
             /\ r \notin result.value =>
                  \E o \in SameKey(result.previous, r) : o.rowid < r.rowid
        /\ result.rowcount = Cardinality(result.previous \ result.value)
        /\ result.calls = 2 => result.rowcount = 0 /\ result.value = result.previous

\* The statement deleted two of three rows that differ outside the key and
\* hold NULL in a key column, and was executed again.
C21_Witness ==
    /\ DedupDone
    /\ result.calls = 2
    /\ Cardinality(args.table) = 3
    /\ Cardinality(result.value) = 1
    /\ \A r \in args.table : r.cells[args.unique_columns[1]] = Null
    /\ \E r, q \in args.table : r.cells # q.cells

\* A value as a literal: a string between single quotes, its text as it is;
\* any other value without quotes.
Literal(v) == IF v.str THEN <<"'", v.text, "'">> ELSE <<v.text>>

\* The literals of a list, with ", " between them.
RECURSIVE Literals(_)
Literals(values) ==
    IF Len(values) = 0 THEN <<>>
    ELSE Literal(values[1])
           \o (IF Len(values) = 1 THEN <<>> ELSE <<", ">> \o Literals(Tail(values)))

\* C22: in the statement of filter_by_value and of filter_by_multiple_values
\* every string value stands between single quotes, not escaped, and every
\* other value without quotes, whatever types the list mixes; the table and
\* the column stand as they were given.
C22_StringsQuotedOthersNot ==
    /\ (args.fn = "filter_by_value" /\ result.calls = 1) =>
          result.value =
              <<"SELECT * FROM ", args.table_name, " WHERE ", args.column, " ",
                args.operator, " ">> \o Literal(args.values[1])
    /\ (args.fn = "filter_by_multiple_values" /\ result.calls = 1) =>
          result.value =
              <<"SELECT * FROM ", args.table_name, " WHERE ", args.column, " IN (">>
                  \o Literals(args.values) \o <<")">>

\* C23: backup_original(path) that returns has copied the source document to
\* the backup path, by default the source name with _backup before the
\* extension, which is not the source path, and has changed neither the
\* source document nor a dict nor a table; and the source document changes
\* only when save_excel writes to the source path, so that a backup made
\* before any save holds the document as it was loaded.
C23_BackupCopiesTheSource ==
    [][ /\ \A p \in BackupArgs :
             (backup_original(p) /\ ~raised') =>
                /\ backup_target(p) # SourcePath
                /\ p = None => backup_target(p) = default_backup_path
                /\ doc'[backup_target(p)] = doc[SourcePath]
                /\ \A q \in Paths \ {backup_target(p)} : doc'[q] = doc[q]
                /\ UNCHANGED <<original_excel_data, modified_data, tables>>
        /\ doc'[SourcePath] # doc[SourcePath] =>
             \E p \in {None, ""} : save_excel(p)
      ]_vars

\* A backup at the default path of a document that was loaded, and after it
\* a save to the source path that left the backup as it was.
C23_Witness ==
    /\ original_excel_data # <<>>
    /\ doc[default_backup_path].state = "workbook"
    /\ doc[SourcePath].state = "workbook"
    /\ doc[SourcePath] # doc[default_backup_path]
    /\ read_excel(doc[default_backup_path].sheets) = first_loaded.data

\* Manager i is alive and its database is temporary.
Ephemeral(i) == instances.mgr[i].state = "alive" /\ instances.mgr[i].temp_db

\* C24: two managers that are alive at the same time and both use a
\* temporary database never hold the same temporary file, whatever the order
\* of their constructions, materializations and closes.
C24_TemporaryFilesAreDistinct ==
    \A i, j \in Instances :
        (i # j /\ Ephemeral(i) /\ Ephemeral(j)) =>
            instances.mgr[i].db_path # instances.mgr[j].db_path

\* C24, its consequence: close() of a manager leaves the temporary file of
\* another living manager, and the tables in it, as they were.
C24_CloseLeavesTheOtherFile ==
    [][\A i, j \in Instances :
          (close_of(i) /\ i # j /\ Ephemeral(j)) =>
              instances'.files[instances.mgr[j].db_path]
                  = instances.files[instances.mgr[j].db_path]]_vars

\* The table of dataset d is in tbls what it is in others, or in neither.
SameTable(tbls, others, d) ==
    LET t == _clean_table_name(d)
    IN  /\ t \in DOMAIN tbls <=> t \in DOMAIN others
        /\ t \in DOMAIN tbls => tbls[t] = others[t]

\* The names of a list.
Named(names) == {names[i] : i \in 1..Len(names)}

\* C25: load_sheets_to_sql(names) with a list of names, however many and
\* none included, creates or replaces only the tables of the datasets named
\* in the list: the table of every other dataset is after the call what it
\* was before.
C25_OnlyTheNamedTablesChange ==
    [][\A a \in {b \in SheetNameArgs : ~b.none} :
          (load_sheets_to_sql(a) /\ ~raised') =>
              \A d \in SheetNames \ Named(a.names) : SameTable(tables', tables, d)]_vars

\* The queries the engine rejects on the tables tbls.
Failing(tbls) == {q \in Queries : ~read_sql_query(tbls, q).ok}

\* C26: when the query of update_sheet_from_query(name, Q) fails, the call
\* raises and modified_data is unchanged: the entry of name holds what it
\* held, no entry is added, and save_excel has the same sheets to write as
\* before the call.
C26_FailedReplaceChangesNothing ==
    [][\A n \in SheetNames, q \in Failing(tables) :
          update_sheet_from_query(n, q) =>
              /\ raised'
              /\ modified_data' = modified_data
              /\ Keys(modified_data') = Keys(modified_data)
              /\ write_excel(modified_data') = write_excel(modified_data)
              /\ UNCHANGED <<original_excel_data, doc>>]_vars

\* A call raised on a manager whose modified_data holds the result of an
\* earlier query under a name and the loaded sheets under the others.
C26_Witness ==
    /\ raised /\ db_file
    /\ original_excel_data # <<>>
    /\ \E n \in DOMAIN assigned :
         /\ HasKey(modified_data, n)
         /\ Get(modified_data, n) = assigned[n]
         /\ ~HasKey(original_excel_data, n) \/ Get(original_excel_data, n) # assigned[n]

\* C27: execute_update changes tables only: original_excel_data,
\* modified_data and the documents are after the call what they were before,
\* so save_excel has after it the sheets to write that it had before it.
C27_MutationLeavesTheDicts ==
    [][\A query \in Updates :
          execute_update(query) =>
              /\ UNCHANGED <<original_excel_data, modified_data, doc>>
              /\ write_excel(modified_data') = write_excel(modified_data)]_vars

\* A mutation emptied a table, no query result was assigned, and the
\* save_excel that followed wrote the sheets as they were loaded.
C27_Witness ==
    /\ ~raised
    /\ assigned = NoTables /\ loaded # <<>>
    /\ \E t \in mutated.dirty : t \in DOMAIN tables /\ tables[t].rows = <<>>
    /\ doc[OtherPath] = Workbook(write_excel(loaded))
    /\ \A i \in 1..Len(loaded) : loaded[i].df.rows # <<>>

\* The names of a list that are datasets of orig and whose table is t.
Requested(orig, names, t) ==
    {i \in 1..Len(names) : HasKey(orig, names[i]) /\ _clean_table_name(names[i]) = t}

WithBackup == args.fn = "update_excel_with_query" /\ args.backup

\* C29: in update_excel_with_query with backup enabled the backup is made
\* before the load, the replacement and the save: as long as there is no
\* backup nothing is loaded, replaced or written, and when backup_original
\* failed nothing is ever; once made, the backup holds the document as it
\* was at the call, whatever the output path; and when the `with` statement
\* is left the connection is closed.
C29_BackupComesFirst ==
    WithBackup =>
        /\ doc[default_backup_path].state = "absent" =>
              /\ original_excel_data = <<>> /\ modified_data = <<>>
              /\ \A p \in Paths : p # SourcePath => doc[p] = NoFile
              /\ doc[SourcePath] = args.source
        /\ doc[default_backup_path].state # "absent" =>
              doc[default_backup_path] = args.source
        /\ scope = "left" => connection = "closed"

\* C30: with a positive grand total, categories of equal total value have
\* the same cumulative value, the same cumulative percentage and the same
\* label; every order the engine may give tied categories labels each
\* category the same; and a category whose total is the smallest is
\* labelled "Bottom 20%".
C30_TiesShareTheLabel ==
    ParetoDone =>
        LET r == result.value
        IN  /\ \A i, j \in 1..Len(r) :
                 r[i].total_value = r[j].total_value =>
                    /\ r[i].cumulative_value = r[j].cumulative_value
                    /\ r[i].cumulative_percentage = r[j].cumulative_percentage
                    /\ r[i].pareto_category = r[j].pareto_category
            /\ \A o \in Descending(args.rows) :
                 LET other == pareto_analysis(args.rows, o)
                 IN  \A i, j \in 1..Len(r) :
                        r[i].category = other[j].category =>
                            r[i].pareto_category = other[j].pareto_category
            /\ \A i \in 1..Len(r) :
                 (\A j \in 1..Len(r) : r[i].total_value <= r[j].total_value) =>
                     r[i].pareto_category = "Bottom 20%"

\* Two categories of equal total are labelled "Top 80%" together, the engine
\* could have given them in the other order, and the third category, with
\* the smallest total, is labelled "Bottom 20%".
C30_Witness ==
    /\ ParetoDone
    /\ Len(result.value) = 3
    /\ result.value[1].total_value = result.value[2].total_value
    /\ result.value[1].pareto_category = "Top 80%"
    /\ result.value[2].pareto_category = "Top 80%"
    /\ result.value[3].total_value < result.value[2].total_value
    /\ result.value[3].pareto_category = "Bottom 20%"
    /\ Cardinality(Descending(args.rows)) = 2

====
